---- MODULE Spec2Model ----
(***************************************************************************)
(* Model of cdv/cmds/sim.py: the `cdv sim` command group (create, start,   *)
(* stop, status, revert, farm, autofarm).  One process invocation runs one *)
(* command handler to its end.  The handlers are translated from sim.py;   *)
(* the collaborators they call (execute_with_simulator and the actions of  *)
(* cdv.cmds.sim_utils, chia's async_stop) are modelled at their boundary.  *)
(*                                                                         *)
(* An Optional[T] value is a sequence: <<>> is None, <<v>> is the value v. *)
(***************************************************************************)
EXTENDS Integers, Sequences, FiniteSets

VARIABLES
    pc,         \* where the invocation stands: idle (no process) | prompt | connect | act |
                \* release | harness_done | done (the handler is over)
    ctx,        \* ctx.obj, as filled by sim_cmd
    cmd,        \* the command of the current (or last) invocation and its parameters
    events,     \* what the current (or last) invocation did, in order
    call,       \* the last collaborator call of the invocation: callee and arguments
    outcome,    \* how the action run by the harness ended: none | ok | transport_error | action_error
    result,     \* how the invocation ended: none | returned | exited | raised
    exitCode,   \* the process exit code of the last finished invocation
    openConns,  \* RPC connections currently open
    height,     \* the simulator's chain height
    autoFarm,   \* the simulator's auto-farm mode
    height0,    \* chain height when the current invocation began
    autoFarm0,  \* auto-farm mode when the current invocation began
    answer      \* what the user typed at the confirmation prompt (None: not asked yet)

vars == <<pc, ctx, cmd, events, call, outcome, result, exitCode, openConns,
          height, autoFarm, height0, autoFarm0, answer>>

----------------------------------------------------------------------------
(* Bounds of the model *)

MaxBlocks == 3
MaxHeight == 3
MaxFingerprint == 1
MaxStatus == 2

----------------------------------------------------------------------------
(* Input domains *)

None == <<>>
Some(v) == <<v>>

BlocksValues == 0..MaxBlocks
Fingerprints == {None} \cup {Some(n) : n \in 0..MaxFingerprint}
Mnemonics == {None, Some(""), Some("abandon")}
OptStrings == {None, Some("x")}
OptBools == {None, Some(TRUE), Some(FALSE)}
Addresses == {"", "xch1"}
Answers == {"y", "Y", "n", "", "yes"}
AutofarmChoices == {"on", "off"}
StopStatuses == 0..MaxStatus
RpcPorts == {None, Some(8000)}
SimulatorNames == {"main", "alt"}
Outcomes == {"ok", "transport_error", "action_error"}

----------------------------------------------------------------------------
(* Python semantics used by the handlers *)

\* truthiness of an Optional[int]: None and 0 are false
TruthyInt(o) == o # None /\ o[1] # 0

\* truthiness of an Optional[str]: None and "" are false
TruthyStr(o) == o # None /\ o[1] # ""

\* a handler that drops the status: the process always exits 0
SysExitZero(n) == 0

\* sys.exit(n) for an int n: the process exit status is n's low 8 bits
SysExit(n) == n % 256

----------------------------------------------------------------------------
(* sim_cmd: the group callback fills ctx.obj *)

SIMULATOR_ROOT_PATH == "simulator_root"

sim_cmd(rpc_port, root_path, simulator_name) ==
    [root_path |-> <<root_path, simulator_name>>,
     sim_name  |-> simulator_name,
     rpc_port  |-> rpc_port]

Contexts == {sim_cmd(p, SIMULATOR_ROOT_PATH, n) : p \in RpcPorts, n \in SimulatorNames}

NoCall == [fn |-> "none", args |-> <<>>]

\* no process is running: there is no ctx.obj
NoContext == [root_path |-> None, sim_name |-> "", rpc_port |-> None]

Init ==
    /\ pc = "idle"
    /\ ctx = NoContext
    /\ cmd = [name |-> "none"]
    /\ events = <<>>
    /\ call = NoCall
    /\ outcome = "none"
    /\ result = "none"
    /\ exitCode = 0
    /\ openConns = 0
    /\ height \in 0..MaxHeight
    /\ autoFarm \in BOOLEAN
    /\ height0 = height
    /\ autoFarm0 = autoFarm
    /\ answer = None

\* A new process starts: sim_cmd runs, then the chosen command handler.
Begin(c, command) ==
    /\ pc = "idle"
    /\ ctx' = c
    /\ cmd' = command
    /\ height0' = height
    /\ autoFarm0' = autoFarm
    /\ answer' = None

\* The handler returns without having touched the simulator.
ReturnLocally(evs, cl, res, code) ==
    /\ pc' = "done"
    /\ events' = evs
    /\ call' = cl
    /\ outcome' = "none"
    /\ result' = res
    /\ exitCode' = code
    /\ UNCHANGED <<openConns, height, autoFarm>>

\* asyncio.run(execute_with_simulator(rpc_port, root_path, fn, True, *args)):
\* the handler enters the harness and waits for it.
EnterHarness(c, evs, fn, args) ==
    /\ pc' = "connect"
    /\ events' = Append(evs, "harness")
    /\ call' = [fn |-> fn,
                rpc_port |-> c.rpc_port,
                root_path |-> c.root_path,
                must_be_running |-> TRUE,
                args |-> args]
    /\ outcome' = "none"
    /\ result' = "none"
    /\ UNCHANGED <<exitCode, openConns, height, autoFarm>>

----------------------------------------------------------------------------
(* create *)

\* `if fingerprint and mnemonic:`
BothKeysGiven(fingerprint, mnemonic) == TruthyInt(fingerprint) /\ TruthyStr(mnemonic)

create_simulator_config ==
    \E c \in Contexts, fingerprint \in Fingerprints, reward_address \in OptStrings,
       plot_directory \in OptStrings, mnemonic \in Mnemonics, auto_farm \in OptBools,
       docker_mode \in BOOLEAN, no_bitfield \in BOOLEAN :
        /\ Begin(c, [name |-> "create", fingerprint |-> fingerprint,
                     reward_address |-> reward_address, plot_directory |-> plot_directory,
                     mnemonic |-> mnemonic, auto_farm |-> auto_farm,
                     docker_mode |-> docker_mode, no_bitfield |-> no_bitfield])
        /\ IF BothKeysGiven(fingerprint, mnemonic)
             THEN ReturnLocally(<<"print", "reject">>, NoCall, "returned", 0)
             ELSE ReturnLocally(<<"print", "wizard">>,
                                [fn |-> "async_config_wizard",
                                 args |-> <<c.root_path, fingerprint, reward_address,
                                            plot_directory, mnemonic, auto_farm,
                                            docker_mode, ~no_bitfield>>],
                                "returned", 0)

----------------------------------------------------------------------------
(* start, stop *)

\* the wallet test lost: both services always
ServiceGroupBoth(wallet) == <<"simulator", "wallet">>

\* group = ("simulator",); if wallet: group += ("wallet",)
ServiceGroup(wallet) ==
    IF wallet THEN <<"simulator">> \o <<"wallet">> ELSE <<"simulator">>

start_cmd ==
    \E c \in Contexts, restart \in BOOLEAN, wallet \in BOOLEAN :
        /\ Begin(c, [name |-> "start", restart |-> restart, wallet |-> wallet])
        /\ ReturnLocally(<<"start_async">>,
                         [fn |-> "start_async",
                          args |-> <<c.root_path, ServiceGroup(wallet), restart>>],
                         "returned", 0)

\* async_stop's returned status is an input here; sys.exit turns it into the exit code.
stop_cmd ==
    \E c \in Contexts, daemon \in BOOLEAN, wallet \in BOOLEAN, status \in StopStatuses :
        /\ Begin(c, [name |-> "stop", daemon |-> daemon, wallet |-> wallet])
        /\ ReturnLocally(<<"load_config", "async_stop", "sys_exit">>,
                         [fn |-> "async_stop",
                          args |-> <<c.root_path, "config", ServiceGroup(wallet), daemon>>,
                          ret |-> status],
                         "exited", SysExit(status))

----------------------------------------------------------------------------
(* status, farm, autofarm *)

status_cmd ==
    \E c \in Contexts, fingerprint \in Fingerprints, show_key \in BOOLEAN,
       show_coins \in BOOLEAN, include_rewards \in BOOLEAN, show_addresses \in BOOLEAN :
        /\ Begin(c, [name |-> "status", fingerprint |-> fingerprint, show_key |-> show_key,
                     show_coins |-> show_coins, include_rewards |-> include_rewards,
                     show_addresses |-> show_addresses])
        /\ EnterHarness(c, <<>>, "print_status",
                        <<fingerprint, show_key, show_coins, include_rewards, show_addresses>>)

\* the flag handed on without the negation
FarmArgsFlagAsIs(blocks, non_transaction, target_address) ==
    <<blocks, non_transaction, target_address>>

\* the arguments farm_cmd hands to farm_blocks: blocks, not non_transaction, target_address
FarmArgs(blocks, non_transaction, target_address) ==
    <<blocks, ~non_transaction, target_address>>

farm_cmd ==
    \E c \in Contexts, blocks \in BlocksValues, non_transaction \in BOOLEAN,
       target_address \in Addresses :
        /\ Begin(c, [name |-> "farm", blocks |-> blocks,
                     non_transaction |-> non_transaction,
                     target_address |-> target_address])
        /\ EnterHarness(c, <<>>, "farm_blocks",
                        FarmArgs(blocks, non_transaction, target_address))

\* autofarm = bool(set_autofarm == "on")
AutofarmArg(set_autofarm) == set_autofarm = "on"

autofarm_cmd ==
    \E c \in Contexts, set_autofarm \in AutofarmChoices :
        /\ Begin(c, [name |-> "autofarm", set_autofarm |-> set_autofarm])
        /\ EnterHarness(c, <<>>, "set_auto_farm", <<AutofarmArg(set_autofarm)>>)

----------------------------------------------------------------------------
(* revert *)

\* the prompt asked whenever force is set, disable_prompt ignored
PromptOnForce(force, disable_prompt) == force

\* `if force and not disable_prompt:`
PromptRequired(force, disable_prompt) == force /\ ~disable_prompt

\* a case-insensitive comparison of the answer
ConfirmedAnyCase(ans) == ans \in {"y", "Y"}

\* `if input(input_str) != "y": return`: only the exact string "y" confirms
Confirmed(ans) == ans = "y"

\* the validation written as "more than the default"
ResetConflictAbove(reset, blocks) == reset /\ blocks > 1

\* `if reset and blocks != 1:`
ResetConflict(reset, blocks) == reset /\ blocks # 1

\* reset and force handed over in each other's place
RevertArgsSwapped(blocks, new_blocks, reset, force) ==
    <<blocks, new_blocks, force, reset>>

\* the arguments revert_cmd hands to revert_block_height: blocks, new_blocks, reset, force
RevertArgs(blocks, new_blocks, reset, force) ==
    <<blocks, new_blocks, reset, force>>

\* lines 180-194: the reset/blocks validation, then the harness
RevertValidate(c, evs, p) ==
    IF ResetConflict(p.reset, p.blocks)
      THEN ReturnLocally(evs \o <<"validate", "reject">>, NoCall, "returned", 0)
      ELSE EnterHarness(c, Append(evs, "validate"), "revert_block_height",
                        RevertArgs(p.blocks, p.new_blocks, p.reset, p.force))

\* revert_cmd up to its first blocking point: input() when the prompt is due,
\* the harness (or the local return) otherwise
revert_cmd ==
    \E c \in Contexts, blocks \in BlocksValues, new_blocks \in BlocksValues,
       reset \in BOOLEAN, force \in BOOLEAN, disable_prompt \in BOOLEAN :
        LET p == [name |-> "revert", blocks |-> blocks, new_blocks |-> new_blocks,
                  reset |-> reset, force |-> force, disable_prompt |-> disable_prompt]
        IN  /\ Begin(c, p)
            /\ IF PromptRequired(force, disable_prompt)
                 THEN /\ pc' = "prompt"
                      /\ events' = <<"prompt">>
                      /\ call' = NoCall
                      /\ outcome' = "none"
                      /\ result' = "none"
                      /\ UNCHANGED <<exitCode, openConns, height, autoFarm>>
                 ELSE RevertValidate(c, <<>>, p)

\* input() returns what the user typed; revert_cmd goes on from line 178
revert_input ==
    \E ans \in Answers :
        /\ pc = "prompt"
        /\ answer' = Some(ans)
        /\ UNCHANGED <<ctx, cmd, height0, autoFarm0>>
        /\ IF Confirmed(ans)
             THEN RevertValidate(ctx, Append(events, "confirmed"), cmd)
             ELSE ReturnLocally(Append(events, "declined"), NoCall, "returned", 0)

----------------------------------------------------------------------------
(* The collaborators of cdv.cmds.sim_utils, at their boundary *)

Max(a, b) == IF a >= b THEN a ELSE b

\* farm_blocks: the chain grows by block_count
FarmEffect(h, args) == h + args[1]

\* revert_block_height: remove blocks_back blocks (all of them on reset), then add new_blocks
RevertEffect(h, args) == (IF args[3] THEN 0 ELSE Max(h - args[1], 0)) + args[2]

\* the chain height after the action named by the call has succeeded
HeightAfter(cl, h) ==
    CASE cl.fn = "farm_blocks" -> FarmEffect(h, cl.args)
      [] cl.fn = "revert_block_height" -> RevertEffect(h, cl.args)
      [] OTHER -> h

\* the auto-farm mode after the action named by the call has succeeded
AutoFarmAfter(cl, af) == IF cl.fn = "set_auto_farm" THEN cl.args[1] ELSE af

\* a harness that closes the connection only after a successful action
ReleasesOnSuccess(o) == o = "ok"

\* the harness releases the connection on every exit path
ReleasesOn(o) == TRUE

\* execute_with_simulator, step 1: open the RPC client
HarnessConnect ==
    /\ pc = "connect"
    /\ pc' = "act"
    /\ openConns' = openConns + 1
    /\ events' = Append(events, "connect")
    /\ UNCHANGED <<ctx, cmd, call, outcome, result, exitCode, height, autoFarm,
                   height0, autoFarm0, answer>>

\* step 2: run the action once over the connection; it succeeds or fails
HarnessAct ==
    \E o \in Outcomes :
        /\ pc = "act"
        /\ pc' = "release"
        /\ outcome' = o
        /\ events' = Append(events, "act")
        /\ IF o = "ok"
             THEN /\ HeightAfter(call, height) <= MaxHeight
                  /\ height' = HeightAfter(call, height)
                  /\ autoFarm' = AutoFarmAfter(call, autoFarm)
             ELSE UNCHANGED <<height, autoFarm>>
        /\ UNCHANGED <<ctx, cmd, call, result, exitCode, openConns,
                       height0, autoFarm0, answer>>

\* step 3: release the connection, whatever the outcome
HarnessRelease ==
    /\ pc = "release"
    /\ pc' = "harness_done"
    /\ IF ReleasesOn(outcome)
         THEN /\ openConns' = openConns - 1
              /\ events' = Append(events, "release")
         ELSE UNCHANGED <<openConns, events>>
    /\ UNCHANGED <<ctx, cmd, call, outcome, result, exitCode, height, autoFarm,
                   height0, autoFarm0, answer>>

\* a handler that runs the harness again when the action failed
AfterHarnessRetry(o) == IF o = "ok" THEN "done" ELSE "connect"

\* where the handler goes once asyncio.run is over: nothing follows the call
AfterHarness(o) == "done"

\* asyncio.run returns (or raises what the harness surfaced) and the handler ends
HandlerReturn ==
    /\ pc = "harness_done"
    /\ pc' = AfterHarness(outcome)
    /\ result' = IF outcome = "ok" THEN "returned" ELSE "raised"
    /\ exitCode' = IF outcome = "ok" THEN 0 ELSE 1
    /\ UNCHANGED <<ctx, cmd, events, call, outcome, openConns, height, autoFarm,
                   height0, autoFarm0, answer>>

\* The process ends. What outlives it is the simulator: its chain, its auto-farm
\* mode, and any connection that was left open.
ProcessExit ==
    /\ pc = "done"
    /\ pc' = "idle"
    /\ ctx' = NoContext
    /\ cmd' = [name |-> "none"]
    /\ events' = <<>>
    /\ call' = NoCall
    /\ outcome' = "none"
    /\ result' = "none"
    /\ exitCode' = 0
    /\ height0' = height
    /\ autoFarm0' = autoFarm
    /\ answer' = None
    /\ UNCHANGED <<openConns, height, autoFarm>>

----------------------------------------------------------------------------

Next ==
    \/ create_simulator_config
    \/ start_cmd
    \/ stop_cmd
    \/ status_cmd
    \/ revert_cmd
    \/ revert_input
    \/ farm_cmd
    \/ autofarm_cmd
    \/ HarnessConnect
    \/ HarnessAct
    \/ HarnessRelease
    \/ HandlerReturn
    \/ ProcessExit

Spec == Init /\ [][Next]_vars

----------------------------------------------------------------------------
(* Properties *)

Has(evs, e) == \E i \in DOMAIN evs : evs[i] = e
Count(evs, e) == Cardinality({i \in DOMAIN evs : evs[i] = e})
ChainUnchanged == height = height0 /\ autoFarm = autoFarm0
IsRevert == cmd.name = "revert"

\* C1: a revert with reset set and blocks other than 1 never reaches the RPC
\* harness, whatever the other parameters and the answer to the prompt are:
\* no harness entry, no revert_block_height call, no connection, chain unchanged.
C1_ResetWithBlocksRejected ==
    (IsRevert /\ cmd.reset /\ cmd.blocks # 1) =>
        /\ ~Has(events, "harness")
        /\ call = NoCall
        /\ pc \in {"prompt", "done"}
        /\ openConns = 0
        /\ ChainUnchanged

C1_Witness ==
    /\ pc = "done" /\ IsRevert /\ cmd.reset /\ cmd.blocks = 0
    /\ ~cmd.force
    /\ Has(events, "reject")
    /\ result = "returned"

\* C2: a forced revert with the prompt enabled, answered by anything but "y",
\* makes no RPC call, raises nothing and returns normally, chain unchanged.
C2_DeclinedDoesNothing ==
    (IsRevert /\ cmd.force /\ ~cmd.disable_prompt /\ answer # None /\ answer # Some("y")) =>
        /\ ~Has(events, "harness")
        /\ call = NoCall
        /\ pc = "done"
        /\ result = "returned"
        /\ exitCode = 0
        /\ openConns = 0
        /\ ChainUnchanged

C2_Witness ==
    /\ pc = "done" /\ IsRevert /\ cmd.force /\ ~cmd.disable_prompt
    /\ answer = Some("Y")
    /\ ~cmd.reset
    /\ events = <<"prompt", "declined">>
    /\ result = "returned"

\* C3: create with fingerprint and mnemonic both supplied (non-null), 0 and the
\* empty string included, never invokes the provisioning wizard.
C3_BothSuppliedNeverWizard ==
    (cmd.name = "create" /\ cmd.fingerprint # None /\ cmd.mnemonic # None) =>
        /\ ~Has(events, "wizard")
        /\ call.fn # "async_config_wizard"

\* C4: whenever the harness is over (and between invocations) no RPC connection
\* is open, whether the action succeeded or failed; at most one is ever open.
C4_ConnectionReleased ==
    /\ pc \in {"idle", "prompt", "connect", "harness_done", "done"} => openConns = 0
    /\ pc \in {"act", "release"} => openConns = 1
    /\ pc \in {"harness_done", "done"} /\ Has(events, "connect") =>
           Count(events, "release") = 1

C4_Witness ==
    /\ pc = "done" /\ cmd.name = "farm"
    /\ outcome = "action_error"
    /\ Has(events, "connect") /\ Has(events, "release")
    /\ openConns = 0

\* C5: the exit code of stop is the status async_stop returned, so a non-success
\* status gives a non-zero exit code.
C5_StopExitCode ==
    (pc = "done" /\ cmd.name = "stop") =>
        /\ result = "exited"
        /\ exitCode = call.ret
        /\ (call.ret # 0 => exitCode # 0)

C5_Witness ==
    /\ pc = "done" /\ cmd.name = "stop"
    /\ call.ret = 1 /\ exitCode = 1

\* C6: the force argument handed to revert_block_height is true only if the
\* user set force; reset and disable_prompt never turn it on.
C6_ForceOnlyFromUser ==
    call.fn = "revert_block_height" =>
        /\ IsRevert
        /\ (call.args[4] => cmd.force)

C6_Witness ==
    /\ call.fn = "revert_block_height"
    /\ cmd.reset /\ cmd.disable_prompt /\ ~cmd.force
    /\ call.args[4] = FALSE
    /\ pc = "done" /\ outcome = "ok"

\* C7: an invocation enters the harness at most once and the harness connects,
\* acts and releases at most once; a finished status, farm or autofarm entered it
\* exactly once, and create, start and stop never do.
C7_SingleAttempt ==
    /\ Count(events, "harness") <= 1
    /\ Count(events, "connect") <= 1
    /\ Count(events, "act") <= 1
    /\ Count(events, "release") <= 1
    /\ Count(events, "connect") <= Count(events, "harness")
    /\ (pc = "done" /\ cmd.name \in {"status", "farm", "autofarm"}) =>
           Count(events, "harness") = 1 /\ Count(events, "connect") = 1
    /\ cmd.name \in {"create", "start", "stop"} =>
           Count(events, "harness") = 0 /\ Count(events, "connect") = 0

C7_Witness ==
    /\ pc = "done" /\ cmd.name = "status"
    /\ outcome = "transport_error"
    /\ events = <<"harness", "connect", "act", "release">>

\* C8: the group handed to start_async and to async_stop is ("simulator",) without
\* the wallet flag and ("simulator", "wallet") with it, whatever restart or daemon is.
C8_ServiceGroup ==
    /\ (pc = "done" /\ cmd.name = "start") =>
           /\ call.fn = "start_async"
           /\ call.args[2][1] = "simulator"
           /\ call.args[2] = (IF cmd.wallet THEN <<"simulator", "wallet">>
                                            ELSE <<"simulator">>)
    /\ (pc = "done" /\ cmd.name = "stop") =>
           /\ call.fn = "async_stop"
           /\ call.args[3][1] = "simulator"
           /\ call.args[3] = (IF cmd.wallet THEN <<"simulator", "wallet">>
                                            ELSE <<"simulator">>)

C8_Witness ==
    /\ pc = "done" /\ cmd.name = "start"
    /\ cmd.restart /\ ~cmd.wallet
    /\ call.args[2] = <<"simulator">>

\* C9: farm hands farm_blocks block_count = blocks, as_transaction_block = the
\* negation of the non-transaction flag, and the target address as given.
C9_FarmArguments ==
    call.fn = "farm_blocks" =>
        /\ cmd.name = "farm"
        /\ call.args[1] = cmd.blocks
        /\ call.args[2] = ~cmd.non_transaction
        /\ call.args[3] = cmd.target_address
        /\ Len(call.args) = 3

C9_Witness ==
    /\ pc = "done" /\ cmd.name = "farm" /\ outcome = "ok"
    /\ cmd.blocks = 3 /\ cmd.non_transaction
    /\ call.args = <<3, FALSE, "">>

\* C10: revert reads the prompt exactly when force is set and disable_prompt is
\* not, at most once, and before the reset/blocks validation; a confirmed forced
\* reset with blocks other than 1 is asked first and then rejected without RPC.
C10_PromptBeforeValidation ==
    /\ Count(events, "prompt") <= 1
    /\ (IsRevert /\ pc # "idle") =>
           /\ Has(events, "prompt") <=> (cmd.force /\ ~cmd.disable_prompt)
           /\ (answer # None) => Has(events, "prompt")
           /\ \A i, j \in DOMAIN events :
                  (events[i] = "prompt" /\ events[j] = "validate") => i < j
           /\ Has(events, "validate") /\ Has(events, "prompt") => answer = Some("y")
    /\ ~IsRevert => ~Has(events, "prompt") /\ answer = None
    /\ (IsRevert /\ cmd.force /\ ~cmd.disable_prompt /\ cmd.reset /\ cmd.blocks # 1
            /\ answer = Some("y")) =>
           /\ pc = "done"
           /\ events = <<"prompt", "confirmed", "validate", "reject">>
           /\ call = NoCall

C10_Witness ==
    /\ pc = "done" /\ IsRevert
    /\ cmd.force /\ ~cmd.disable_prompt /\ cmd.reset /\ cmd.blocks = 2
    /\ answer = Some("y")
    /\ events = <<"prompt", "confirmed", "validate", "reject">>
    /\ ~Has(events, "harness")

====
